---- MODULE Spec2Model ----
(***************************************************************************)
(* Realization initialization and progress accounting of the hazard        *)
(* calculators (openquake/engine/calculators/hazard/general.py).           *)
(*                                                                         *)
(* The database is modelled as its committed tables (hzrdr.lt_realization, *)
(* htemp.source_progress) plus the uncommitted writes of the open          *)
(* transactions: the initializer's transaction on 'reslt_writer' and one   *)
(* transaction per worker calling update_realization.  Readers see the     *)
(* committed tables only (READ COMMITTED).                                 *)
(***************************************************************************)
EXTENDS Integers, Sequences, FiniteSets, TLC

\* ---------------------------------------------------------------- bounds
NumWorkers == 2        \* worker transactions calling update_realization
MaxNumItems == 2       \* num_items of one call ranges over 1..MaxNumItems
MaxPaths == 2          \* longest sequence returned by enumerate_paths
MaxSamples == 2        \* largest number_of_logic_tree_samples
MaxSeed == 1           \* random_seed ranges over 0..MaxSeed
MaxCallbacks == 2      \* longest rlz_callbacks list

RndMod == 8            \* number of distinct generator states and draws
MaxRss == 2            \* a memory measure ranges over 1..MaxRss megabytes
MaxPolls == 2          \* iterations of the monitor thread's loop
MaxData == 3           \* insert_datum calls on one writer
MaxOccupancy == 1      \* longest occupancy list of one asset
MaxCoord == 2          \* locations lie on the points 0..MaxCoord of a line
MaxSiteInputs == 2     \* most site_model inputs of one calculation
MaxSourceCalls == 2    \* initialize_sources calls, a calculation each
MaxSourcePaths == 2    \* most source model files of one logic tree

Workers == 1..NumWorkers

\* An optional value (None in the code) is a set of at most one element.
Absent == {}
Some(x) == {x}
The(o) == CHOOSE x \in o : TRUE

\* --------------------------------------------------- fixtures of the store
\* Source model names a logic tree path can carry.
SmNames == {"sm_a", "sm_b", "sm_empty", "sm_none"}

\* hzrdi.src2ltsrc of the source model logic tree: filename -> hzrd_src id.
\* "sm_none" has no row.
Src2ltsrc == [sm_a |-> 1, sm_b |-> 2, sm_empty |-> 3]

\* hzrdi.parsed_source rows as <<id, input_id>>, in id order.
ParsedSource == << <<1, 1>>, <<2, 2>>, <<3, 2>> >>

\* The hazard calculation being initialized, and an earlier one whose
\* realization is already in the table.
ThisHc == 1
OtherHc == 0

\* ------------------------------------------------------------- variables
VARIABLES
    lt_realization,   \* committed hzrdr.lt_realization: id -> row
    source_progress,  \* committed htemp.source_progress: sequence of rows
    samples,          \* hc.number_of_logic_tree_samples
    random_seed,      \* hc.random_seed
    tree,             \* source model names along the logic tree, in order
    callbacks,        \* rlz_callbacks: None or a sequence of callbacks
    init_pc,          \* position of initialize_realizations
    i,                \* loop index of the initializer
    lt_rlz,           \* the initializer's in-memory LtRealization object
    sm_name,          \* source model name of the current path
    hzrd_src,         \* source model input resolved for the current path
    hzrd_src_cache,   \* name -> input id
    lookups,          \* names looked up in src2ltsrc, in order
    tx_rlz,           \* rows written by the initializer's open transaction
    tx_sp,            \* source_progress rows inserted by that transaction
    tx_locks,         \* ids of committed rows locked by that transaction
    rnd,              \* state of the random.Random generator
    seed,             \* local variable seed of the Monte-Carlo initializer
    cb_next,          \* index of the next callback to run
    cb_log,           \* callback invocations, in order
    wk,               \* worker -> its update_realization transaction
    \* performance.py: one PerformanceMonitor object and its with-block
    kind,             \* its class: "base" or "engine"
    pids,             \* the pids passed to PerformanceMonitor.__init__
    procs,            \* self._procs: the processes still polled
    rss_measures,     \* self.rss_measures: process -> list of megabytes
    running,          \* self._running
    exc,              \* self.exc
    start_time,       \* self._start_time
    duration,         \* self.duration
    now,              \* time.time(), in tics
    no_distribute,    \* whether OQ_NO_DISTRIBUTE is set
    mon_pc,           \* position of the thread that uses the monitor
    th_pc,            \* position of the monitor thread (_run)
    block_exc,        \* the exception the with-block raised, if any
    propagated,       \* the exception that leaves the with statement, if any
    on_exit_calls,    \* number of on_exit() calls
    performance,      \* saved uiapi.performance records, in order
    \* input/exposure.py: one ExposureDBWriter object and the tables it fills
    model,            \* self.model: None or the id of the saved ExposureModel
    exposure_model,   \* table of ExposureModel rows
    exposure_data,    \* table of ExposureData rows
    occupancy,        \* table of Occupancy rows
    data_log,         \* arguments of the insert_datum calls, in order
    \* general.py: initialize_site_model of one calculation
    site_inputs,      \* number of site_model inputs of the calculation
    sm_nodes,         \* locations of the nodes in the site model file
    mesh,             \* self.computation_mesh: the points of interest
    site_model,       \* table hzrdi.site_model
    site_data,        \* table htemp.site_data
    site_pc,          \* position of initialize_site_model
    site_log,         \* what initialize_site_model has done, in order
    \* general.py: initialize_sources
    inputs,           \* table uiapi.input: id -> path of a source input
    input2hcalc,      \* table uiapi.input2hcalc: pairs (input, calculation)
    src2ltsrc,        \* table uiapi.src2ltsrc
    parsed_source,    \* table hzrdi.parsed_source
    parse_log,        \* the inputs src_db_writer.serialize() ran for, in order
    src_calls         \* the initialize_sources calls made so far, in order

monitor_vars == <<kind, pids, procs, rss_measures, running, exc, start_time,
                  duration, now, no_distribute, mon_pc, th_pc, block_exc,
                  propagated, on_exit_calls, performance>>

writer_vars == <<model, exposure_model, exposure_data, occupancy, data_log>>

site_vars == <<site_inputs, sm_nodes, mesh, site_model, site_data, site_pc,
               site_log>>

sources_vars == <<inputs, input2hcalc, src2ltsrc, parsed_source, parse_log,
                  src_calls>>

\* The variables of the set-up steps that come before the realizations.
setup_vars == <<site_vars, sources_vars>>

\* The variables of the realization initializer and of the workers.
hazard_vars == <<lt_realization, source_progress, samples, random_seed, tree,
                 callbacks, init_pc, i, lt_rlz, sm_name, hzrd_src,
                 hzrd_src_cache, lookups, tx_rlz, tx_sp, tx_locks, rnd, seed,
                 cb_next, cb_log, wk>>

vars == <<hazard_vars, monitor_vars, writer_vars, setup_vars>>

\* What no step of the hazard calculator or of a worker changes: the
\* parameters of the calculation, and the objects of the other components.
hc_vars == <<samples, random_seed, tree, callbacks, monitor_vars,
            writer_vars, setup_vars>>
init_vars == <<init_pc, i, lt_rlz, sm_name, hzrd_src, hzrd_src_cache,
               lookups, tx_rlz, tx_sp, tx_locks, rnd, seed, cb_next, cb_log>>
db_vars == <<lt_realization, source_progress>>

\* ------------------------------------------------------------- helpers
\* SELECT count(1) FROM source_progress WHERE lt_realization_id = id
CountProgress(sp, id) ==
    Cardinality({k \in 1..Len(sp) : sp[k].lt_realization_id = id})

\* ----------------------------------------------- the logic tree processor
\* ltp.enumerate_paths(): one (sm_name, weight, sm_lt_path, gsim_lt_path) per
\* end branch, in the order of the tree.
EnumeratePaths(t) ==
    [k \in 1..Len(t) |-> [sm_name |-> t[k], weight |-> 100 \div Len(t),
                          sm_lt_path |-> <<t[k]>>, gsim_lt_path |-> <<k>>]]

\* ltp.sample_source_model_logictree(seed): (sm_name, sm_lt_path)
SampleSourceModel(t, s) ==
    LET name == t[(s % Len(t)) + 1]
    IN  [sm_name |-> name, sm_lt_path |-> <<name>>]

\* ltp.sample_gmpe_logictree(seed): gsim_lt_path
SampleGmpe(s) == <<(s % 2) + 1>>

\* ------------------------------------------------------ random.Random
\* rnd.seed(s)
RndSeed(s) == s % RndMod

\* The generator state after one rnd.randint(MIN_SINT_32, MAX_SINT_32).
RndNext(st) == (5 * st + 3) % RndMod

\* The value that draw returns: a signed integer.
RndValue(st) == RndNext(st) - (RndMod \div 2)

\* ------------------------------------------------- update_realization
\* A row is locked by a worker from its locking read to the end of its
\* transaction.
LockedByWorker(r) ==
    \E w \in Workers : wk[w].pc \in {"locked", "saved"} /\ wk[w].rlz = r

\* SELECT ... FOR UPDATE returns only once no other transaction holds the row.
ForUpdate_NoLock(w, r) == TRUE

ForUpdate(w, r) ==
    /\ ~ \E v \in Workers \ {w} :
            wk[v].pc \in {"locked", "saved"} /\ wk[v].rlz = r
    /\ r \notin tx_locks

\* lt_rlz.completed_items += num_items; set is_complete when total reached.
Increment_Minus(row, n) ==
    LET c == row.completed_items - n
    IN  [row EXCEPT !.completed_items = c,
                    !.is_complete = IF c = row.total_items
                                    THEN TRUE ELSE @]

Increment_NoFlag(row, n) ==
    [row EXCEPT !.completed_items = row.completed_items + n]

Increment_Reassign(row, n) ==
    LET c == row.completed_items + n
    IN  [row EXCEPT !.completed_items = c,
                    !.is_complete = (c = row.total_items)]

Increment(row, n) ==
    LET c == row.completed_items + n
    IN  [row EXCEPT !.completed_items = c,
                    !.is_complete = IF c = row.total_items
                                    THEN TRUE ELSE @]

\* The placeholder of an LtRealization object that does not exist yet.
NoRow == [id |-> 0, hazard_calculation |-> OtherHc, ordinal |-> 0,
          seed |-> Absent, weight |-> Absent, sm_lt_path |-> << >>,
          gsim_lt_path |-> << >>, total_items |-> 0, completed_items |-> 0,
          is_complete |-> FALSE]

IdleWorker == [pc |-> "idle", rlz |-> 0, num_items |-> 0, obj |-> NoRow]

\* Workers are interchangeable: they start in index order.
MayStart(w) ==
    /\ wk[w].pc = "idle"
    /\ IF w = 1 THEN TRUE ELSE wk[w - 1].pc # "idle"

\* The ids update_realization is called with: those of the committed rows and
\* one that references no committed row (the id the next realization gets).
CallIds == DOMAIN lt_realization \cup {Cardinality(DOMAIN lt_realization) + 1}

\* LtRealization.objects.raw(ltr_query, [id]): the committed rows with that
\* id, none or one.
RawQuery_Default(r) ==
    IF r \in DOMAIN lt_realization THEN <<lt_realization[r]>>
    ELSE <<[NoRow EXCEPT !.id = r]>>

RawQuery(r) ==
    IF r \in DOMAIN lt_realization THEN <<lt_realization[r]>> ELSE << >>

\* The locking read: [lt_rlz] = LtRealization.objects.raw(ltr_query, [id]).
\* Unpacking a result that is not exactly one row raises ValueError before
\* anything is written.
ReadRow(w, r, n) ==
    /\ ForUpdate(w, r)
    /\ IF Len(RawQuery(r)) = 1
       THEN wk' = [wk EXCEPT ![w] = [pc |-> "locked", rlz |-> r,
                                     num_items |-> n,
                                     obj |-> RawQuery(r)[1]]]
       ELSE wk' = [wk EXCEPT ![w] = [IdleWorker EXCEPT
                                        !.pc = "raised", !.rlz = r]]

LockingRead(w) ==
    /\ MayStart(w)
    /\ \E r \in CallIds, n \in 1..MaxNumItems : ReadRow(w, r, n)
    /\ UNCHANGED <<db_vars, hc_vars, init_vars>>

\* The same call in two steps: update_realization(r, n) is called and its
\* locking read waits, then the row lock is granted and the read returns.
Call(w) ==
    /\ MayStart(w)
    /\ \E r \in CallIds, n \in 1..MaxNumItems :
          wk' = [wk EXCEPT ![w] = [IdleWorker EXCEPT !.pc = "waiting",
                                                     !.rlz = r,
                                                     !.num_items = n]]
    /\ UNCHANGED <<db_vars, hc_vars, init_vars>>

AcquireLock(w) ==
    /\ wk[w].pc = "waiting"
    /\ ReadRow(w, wk[w].rlz, wk[w].num_items)
    /\ UNCHANGED <<db_vars, hc_vars, init_vars>>

\* The increment and lt_rlz.save(): the row is written inside the worker's
\* transaction.
Save(w) ==
    /\ wk[w].pc = "locked"
    /\ wk' = [wk EXCEPT ![w].pc = "saved",
                        ![w].obj = Increment(wk[w].obj, wk[w].num_items)]
    /\ UNCHANGED <<db_vars, hc_vars, init_vars>>

\* The caller's transaction commits: the saved row becomes visible.
RolledBackRow_Kept(w) == wk[w].obj

RolledBackRow(w) == lt_realization[wk[w].rlz]

Commit(w) ==
    /\ wk[w].pc = "saved"
    /\ lt_realization' = [lt_realization EXCEPT ![wk[w].rlz] = wk[w].obj]
    /\ wk' = [wk EXCEPT ![w].pc = "committed"]
    /\ UNCHANGED <<source_progress, hc_vars, init_vars>>

\* The caller's transaction rolls back: the write is discarded.
Rollback(w) ==
    /\ wk[w].pc \in {"locked", "saved"}
    /\ lt_realization' = [lt_realization EXCEPT ![wk[w].rlz] = RolledBackRow(w)]
    /\ wk' = [wk EXCEPT ![w].pc = "rolledback"]
    /\ UNCHANGED <<source_progress, hc_vars, init_vars>>

\* --------------------------------------------- initialize_realizations
\* What the initializer's transaction sees: the committed rows overlaid with
\* its own writes.
TxIds == DOMAIN lt_realization \cup DOMAIN tx_rlz

TxRow(id) == IF id \in DOMAIN tx_rlz THEN tx_rlz[id] ELSE lt_realization[id]

TxProgress == source_progress \o tx_sp

\* The id the sequence of hzrdr.lt_realization hands to the next saved row.
NextId == Cardinality(TxIds) + 1

Sampling == samples > 0

\* Number of realizations the loop of the selected strategy goes through.
NumRealizations == IF Sampling THEN samples ELSE Len(EnumeratePaths(tree))

\* The callbacks the loop body goes through, in the order it runs them.
CallbackList_Reversed ==
    IF callbacks = Absent THEN << >>
    ELSE [k \in 1..Len(The(callbacks)) |->
             The(callbacks)[Len(The(callbacks)) + 1 - k]]

CallbackList == IF callbacks = Absent THEN << >> ELSE The(callbacks)

\* models.LtRealization(...) of the enumeration strategy.
EnumRealization_FromOne(k, path_info) ==
    [id |-> NextId, hazard_calculation |-> ThisHc, ordinal |-> k + 1,
     seed |-> Absent, weight |-> Some(path_info.weight),
     sm_lt_path |-> path_info.sm_lt_path,
     gsim_lt_path |-> path_info.gsim_lt_path,
     total_items |-> -1, completed_items |-> 0, is_complete |-> FALSE]

EnumRealization(k, path_info) ==
    [id |-> NextId, hazard_calculation |-> ThisHc, ordinal |-> k,
     seed |-> Absent, weight |-> Some(path_info.weight),
     sm_lt_path |-> path_info.sm_lt_path,
     gsim_lt_path |-> path_info.gsim_lt_path,
     total_items |-> -1, completed_items |-> 0, is_complete |-> FALSE]

\* models.LtRealization(...) of the Monte-Carlo strategy.
MonteCarloRealization_Reversed(k, s, sm_path, gsim_path) ==
    [id |-> NextId, hazard_calculation |-> ThisHc,
     ordinal |-> samples - 1 - k,
     seed |-> Some(s), weight |-> Absent,
     sm_lt_path |-> sm_path, gsim_lt_path |-> gsim_path,
     total_items |-> -1, completed_items |-> 0, is_complete |-> FALSE]

MonteCarloRealization_ConfigSeed(k, s, sm_path, gsim_path) ==
    [id |-> NextId, hazard_calculation |-> ThisHc, ordinal |-> k,
     seed |-> Some(random_seed), weight |-> Absent,
     sm_lt_path |-> sm_path, gsim_lt_path |-> gsim_path,
     total_items |-> -1, completed_items |-> 0, is_complete |-> FALSE]

MonteCarloRealization_WithWeight(k, s, sm_path, gsim_path) ==
    [id |-> NextId, hazard_calculation |-> ThisHc, ordinal |-> k,
     seed |-> Some(s), weight |-> Some(100 \div samples),
     sm_lt_path |-> sm_path, gsim_lt_path |-> gsim_path,
     total_items |-> -1, completed_items |-> 0, is_complete |-> FALSE]

MonteCarloRealization(k, s, sm_path, gsim_path) ==
    [id |-> NextId, hazard_calculation |-> ThisHc, ordinal |-> k,
     seed |-> Some(s), weight |-> Absent,
     sm_lt_path |-> sm_path, gsim_lt_path |-> gsim_path,
     total_items |-> -1, completed_items |-> 0, is_complete |-> FALSE]

\* commit_on_success leaves by an exception: the transaction is rolled back
\* and none of its writes reaches the committed tables.
RaiseAndRollback_Commit ==
    /\ init_pc' = "failed"
    /\ lt_realization' = [id \in TxIds |-> TxRow(id)]
    /\ source_progress' = TxProgress
    /\ tx_rlz' = << >>
    /\ tx_sp' = << >>
    /\ tx_locks' = {}

RaiseAndRollback_Continue ==
    UNCHANGED <<init_pc, lt_realization, source_progress, tx_rlz, tx_sp,
                tx_locks>>

RaiseAndRollback ==
    /\ init_pc' = "failed"
    /\ UNCHANGED <<lt_realization, source_progress>>
    /\ tx_rlz' = << >>
    /\ tx_sp' = << >>
    /\ tx_locks' = {}

\* The generator the loop draws from: rnd = random.Random() is an instance of
\* its own, so nothing but the loop advances it.
Generator_Global == (rnd + Len(cb_log)) % RndMod

Generator == rnd

\* initialize_realizations is entered: the strategy is selected and its
\* locals are set up.
BeginInit ==
    /\ init_pc = "idle"
    /\ init_pc' = "loop"
    /\ i' = 0
    /\ hzrd_src_cache' = << >>
    /\ seed' = IF Sampling THEN random_seed ELSE seed
    /\ rnd' = IF Sampling THEN RndSeed(random_seed) ELSE rnd
    /\ UNCHANGED <<db_vars, hc_vars, lt_rlz, sm_name, hzrd_src, lookups,
                   tx_rlz, tx_sp, tx_locks, cb_next, cb_log, wk>>

\* Loop head of the enumeration strategy: the path is unpacked and its
\* LtRealization is saved.
CreateEnumeration ==
    /\ init_pc = "loop"
    /\ ~ Sampling
    /\ i < NumRealizations
    /\ LET path_info == EnumeratePaths(tree)[i + 1]
           row == EnumRealization(i, path_info)
       IN  /\ lt_rlz' = row
           /\ tx_rlz' = (row.id :> row) @@ tx_rlz
           /\ sm_name' = path_info.sm_name
    /\ init_pc' = "created"
    /\ UNCHANGED <<db_vars, hc_vars, i, hzrd_src, hzrd_src_cache, lookups,
                   tx_sp, tx_locks, rnd, seed, cb_next, cb_log, wk>>

\* Loop head of the Monte-Carlo strategy: both trees are sampled with one
\* draw each and the LtRealization is saved.
CreateMonteCarlo ==
    /\ init_pc = "loop"
    /\ Sampling
    /\ i < NumRealizations
    /\ LET sm == SampleSourceModel(tree, RndValue(Generator))
           st1 == RndNext(Generator)
           gsim_lt_path == SampleGmpe(RndValue(st1))
           row == MonteCarloRealization(i, seed, sm.sm_lt_path, gsim_lt_path)
       IN  /\ rnd' = RndNext(st1)
           /\ lt_rlz' = row
           /\ tx_rlz' = (row.id :> row) @@ tx_rlz
           /\ sm_name' = sm.sm_name
    /\ init_pc' = "created"
    /\ UNCHANGED <<db_vars, hc_vars, i, hzrd_src, hzrd_src_cache, lookups,
                   tx_sp, tx_locks, seed, cb_next, cb_log, wk>>

\* `sm_name in hzrd_src_cache`
Cached_Never(name) == FALSE
Cached(name) == name \in DOMAIN hzrd_src_cache

\* The source model input is taken from the cache, or looked up in
\* src2ltsrc and cached; a name without a row raises DoesNotExist.
ResolveSource ==
    /\ init_pc = "created"
    /\ IF Cached(sm_name)
       THEN /\ hzrd_src' = hzrd_src_cache[sm_name]
            /\ init_pc' = "resolved"
            /\ UNCHANGED <<db_vars, hzrd_src_cache, lookups, tx_rlz, tx_sp,
                           tx_locks>>
       ELSE /\ lookups' = Append(lookups, sm_name)
            /\ IF sm_name \in DOMAIN Src2ltsrc
               THEN /\ hzrd_src' = Src2ltsrc[sm_name]
                    /\ hzrd_src_cache' =
                           (sm_name :> Src2ltsrc[sm_name]) @@ hzrd_src_cache
                    /\ init_pc' = "resolved"
                    /\ UNCHANGED <<db_vars, tx_rlz, tx_sp, tx_locks>>
               ELSE /\ RaiseAndRollback
                    /\ UNCHANGED <<hzrd_src, hzrd_src_cache>>
    /\ UNCHANGED <<hc_vars, i, lt_rlz, sm_name, rnd, seed, cb_next, cb_log, wk>>

\* First statement of initialize_source_progress:
\* INSERT INTO source_progress SELECT lt_rlz.id, id, FALSE
\*   FROM parsed_source WHERE input_id = hzrd_src.id ORDER BY id
NewProgressRows_AllSources(rlz_id, input_id) ==
    [k \in 1..Len(ParsedSource) |->
        [lt_realization_id |-> rlz_id,
         parsed_source_id |-> ParsedSource[k][1],
         is_complete |-> FALSE]]

NewProgressRows(rlz_id, input_id) ==
    LET F[k \in 0..Len(ParsedSource)] ==
            IF k = 0 THEN << >>
            ELSE IF ParsedSource[k][2] = input_id
                 THEN Append(F[k - 1],
                             [lt_realization_id |-> rlz_id,
                              parsed_source_id |-> ParsedSource[k][1],
                              is_complete |-> FALSE])
                 ELSE F[k - 1]
    IN  F[Len(ParsedSource)]

InsertProgress ==
    /\ init_pc = "resolved"
    /\ tx_sp' = tx_sp \o NewProgressRows(lt_rlz.id, hzrd_src)
    /\ init_pc' = "inserted"
    /\ UNCHANGED <<db_vars, hc_vars, i, lt_rlz, sm_name, hzrd_src,
                   hzrd_src_cache, lookups, tx_rlz, tx_locks, rnd, seed,
                   cb_next, cb_log, wk>>

\* Second statement of initialize_source_progress:
\* UPDATE lt_realization SET total_items = (SELECT count(1) FROM
\*   source_progress WHERE lt_realization_id = lt_rlz.id)
\* The statement has no WHERE clause: it writes every row of the table, and
\* waits for the row locks of the workers.
UpdatedRows_None(id) == {}

UpdatedRows(id) == TxIds

UpdateTotalItems ==
    /\ init_pc = "inserted"
    /\ \A r \in UpdatedRows(lt_rlz.id) \cap DOMAIN lt_realization :
           ~ LockedByWorker(r)
    /\ LET n == CountProgress(TxProgress, lt_rlz.id)
       IN  tx_rlz' = [id \in TxIds |->
                        IF id \in UpdatedRows(lt_rlz.id)
                        THEN [TxRow(id) EXCEPT !.total_items = n]
                        ELSE TxRow(id)]
    /\ tx_locks' = tx_locks \cup
                     (UpdatedRows(lt_rlz.id) \cap DOMAIN lt_realization)
    /\ cb_next' = 1
    /\ init_pc' = "callbacks"
    /\ UNCHANGED <<db_vars, hc_vars, i, lt_rlz, sm_name, hzrd_src,
                   hzrd_src_cache, lookups, tx_sp, rnd, seed, cb_log, wk>>

\* cb(lt_rlz) for the next callback of rlz_callbacks; it returns or raises.
RunCallback ==
    /\ init_pc = "callbacks"
    /\ cb_next <= Len(CallbackList)
    /\ \E raised \in BOOLEAN :
          /\ cb_log' = Append(cb_log, [cb |-> CallbackList[cb_next],
                                       ordinal |-> lt_rlz.ordinal,
                                       total_items |-> lt_rlz.total_items,
                                       raised |-> raised])
          /\ IF raised
             THEN RaiseAndRollback /\ UNCHANGED cb_next
             ELSE /\ cb_next' = cb_next + 1
                  /\ UNCHANGED <<db_vars, init_pc, tx_rlz, tx_sp, tx_locks>>
    /\ UNCHANGED <<hc_vars, i, lt_rlz, sm_name, hzrd_src, hzrd_src_cache,
                   lookups, rnd, seed, wk>>

\* End of the loop body: the Monte-Carlo strategy draws the seed of the next
\* realization and re-seeds the generator with it.
EndIteration ==
    /\ init_pc = "callbacks"
    /\ cb_next > Len(CallbackList)
    /\ i' = i + 1
    /\ seed' = IF Sampling THEN RndValue(Generator) ELSE seed
    /\ rnd' = IF Sampling THEN RndSeed(RndValue(Generator)) ELSE rnd
    /\ init_pc' = "loop"
    /\ UNCHANGED <<db_vars, hc_vars, lt_rlz, sm_name, hzrd_src,
                   hzrd_src_cache, lookups, tx_rlz, tx_sp, tx_locks, cb_next,
                   cb_log, wk>>

\* The loop is exhausted and commit_on_success commits the transaction.
CommitInit ==
    /\ init_pc = "loop"
    /\ i >= NumRealizations
    /\ lt_realization' = [id \in TxIds |-> TxRow(id)]
    /\ source_progress' = TxProgress
    /\ tx_rlz' = << >>
    /\ tx_sp' = << >>
    /\ tx_locks' = {}
    /\ init_pc' = "committed"
    /\ UNCHANGED <<hc_vars, i, lt_rlz, sm_name, hzrd_src, hzrd_src_cache,
                   lookups, rnd, seed, cb_next, cb_log, wk>>

\* ------------------------------------------------------- specification
\* ------------------------------------------------- PerformanceMonitor
\* The processes a monitor is built for: the python process itself
\* (os.getpid()) and the postgres backend of the connection.
Procs == {"py", "pg"}

\* proc.get_memory_info() raises AccessDenied only for a process of another
\* user; the python process can always read its own memory information.
Foreign == {"pg"}

Exceptions == {"KeyError", "RuntimeError"}

Range(s) == {s[k] : k \in 1..Len(s)}

\* The pids a constructor is called with: any list for the base class,
\* [py_pid] or [py_pid, pg_pid] for EnginePerformanceMonitor.
PidLists(cls) ==
    IF cls = "engine" THEN {<<"py">>, <<"py", "pg">>}
    ELSE {<<"py">>, <<"pg">>, <<"py", "pg">>, <<"pg", "py">>}

\* poll_memory(): a process that raises AccessDenied is removed from _procs,
\* the measure of any other is appended to its list.
PollMemory_KeepDenied(ps, m, denied, rss) ==
    [procs |-> ps,
     rss_measures |-> [q \in DOMAIN m |->
                          IF q \in Range(ps) /\ q \notin denied
                          THEN Append(m[q], rss[q]) ELSE m[q]]]

PollMemory(ps, m, denied, rss) ==
    [procs |-> SelectSeq(ps, LAMBDA q : q \notin denied),
     rss_measures |-> [q \in DOMAIN m |->
                          IF q \in Range(ps) /\ q \notin denied
                          THEN Append(m[q], rss[q]) ELSE m[q]]]

\* PerformanceMonitor.mem
BaseMem == [k \in 1..Len(procs) |-> rss_measures[procs[k]]]

\* None where the code otherwise has a number of megabytes.
NoMeasure == -1

\* EnginePerformanceMonitor.mem overrides it when one process is left.
Mem ==
    IF kind = "engine" /\ Len(procs) = 1
    THEN <<rss_measures[procs[1]], <<NoMeasure>> >>
    ELSE BaseMem

\* max(list): the only element of a one-element list, the largest otherwise.
PyMax(list) ==
    IF Len(list) = 1 THEN list[1]
    ELSE CHOOSE x \in Range(list) : \A y \in Range(list) : y <= x

\* mem_peaks == tuple(map(max, self.mem))
MemPeaks == [k \in 1..Len(Mem) |-> PyMax(Mem[k])]

\* What the with statement does with the value __exit__ returns: __exit__
\* has no return statement, so the exception of the block is not suppressed.
ExitSuppresses_True == TRUE

ExitSuppresses == FALSE

\* EnginePerformanceMonitor.on_exit: "save only valid calculations".
SavesPerformance_Always == TRUE

SavesPerformance == exc = Absent

\* on_exit(), called with self.duration = d; the base class prints, the
\* engine class unpacks mem_peaks into two names and saves a record.
OnExit(d) ==
    IF kind = "base"
    THEN [performance |-> performance, raised |-> Absent]
    ELSE IF Len(MemPeaks) # 2
    THEN [performance |-> performance, raised |-> Some("ValueError")]
    ELSE IF SavesPerformance
    THEN [performance |->
              Append(performance,
                     [start_time |-> The(start_time), duration |-> d,
                      pymemory |-> MemPeaks[1], pgmemory |-> MemPeaks[2]]),
          raised |-> Absent]
    ELSE [performance |-> performance, raised |-> Absent]

\* __enter__: self.exc = None, then start() sets _running and the start
\* time and starts the monitor thread.
Enter ==
    /\ mon_pc = "constructed"
    /\ exc' = Absent
    /\ running' = TRUE
    /\ start_time' = Some(now)
    /\ th_pc' = "test"
    /\ mon_pc' = "block"
    /\ UNCHANGED <<kind, pids, procs, rss_measures, duration, now,
                   no_distribute, block_exc, propagated, on_exit_calls,
                   performance, hazard_vars, writer_vars,
                   setup_vars>>

\* The with-block returns or raises e; __exit__ stores e in self.exc and
\* stop() clears _running, then waits in join().
BlockEnds ==
    /\ mon_pc = "block"
    /\ \E e \in {Absent} \cup {Some(x) : x \in Exceptions} :
          /\ block_exc' = e
          /\ exc' = e
    /\ running' = FALSE
    /\ mon_pc' = "joining"
    /\ UNCHANGED <<kind, pids, procs, rss_measures, start_time, duration, now,
                   no_distribute, th_pc, propagated, on_exit_calls,
                   performance, hazard_vars, writer_vars,
                   setup_vars>>

\* self._monitor.join() returns once the monitor thread has ended.
Joined == th_pc = "done"

\* join() returns once the monitor thread has ended; stop() sets the
\* duration and calls on_exit(), __exit__ returns None, and the with
\* statement re-raises the exception of the block unless on_exit raised.
Join ==
    /\ mon_pc = "joining"
    /\ Joined
    /\ LET d == now - The(start_time)
           r == OnExit(d)
       IN  /\ duration' = Some(d)
           /\ performance' = r.performance
           /\ propagated' = IF r.raised # Absent THEN r.raised
                            ELSE IF ExitSuppresses THEN Absent
                            ELSE block_exc
    /\ on_exit_calls' = on_exit_calls + 1
    /\ mon_pc' = "exited"
    /\ UNCHANGED <<kind, pids, procs, rss_measures, running, exc, start_time,
                   now, no_distribute, th_pc, block_exc, hazard_vars,
                   writer_vars, setup_vars>>

\* _run: the test of "while self._running".
LoopGoesOn_Always == TRUE

LoopGoesOn == running

ThreadTest ==
    /\ th_pc = "test"
    /\ LoopGoesOn => now < MaxPolls
    /\ th_pc' = IF LoopGoesOn THEN "poll" ELSE "done"
    /\ UNCHANGED <<kind, pids, procs, rss_measures, running, exc, start_time,
                   duration, now, no_distribute, mon_pc, block_exc,
                   propagated, on_exit_calls, performance, hazard_vars,
                   writer_vars, setup_vars>>

\* _run: self.poll_memory()
ThreadPoll ==
    /\ th_pc = "poll"
    /\ \E denied \in SUBSET (Range(procs) \cap Foreign),
          rss \in [Range(procs) -> 1..MaxRss] :
          LET r == PollMemory(procs, rss_measures, denied, rss)
          IN  /\ procs' = r.procs
              /\ rss_measures' = r.rss_measures
    /\ th_pc' = "on_running"
    /\ UNCHANGED <<kind, pids, running, exc, start_time, duration, now,
                   no_distribute, mon_pc, block_exc, propagated,
                   on_exit_calls, performance, hazard_vars, writer_vars,
                   setup_vars>>

\* '%d mb, %d mb' % mem_peaks raises TypeError unless mem_peaks is a pair of
\* numbers.
FormatRaises ==
    \/ Len(MemPeaks) # 2
    \/ \E k \in 1..Len(MemPeaks) : MemPeaks[k] = NoMeasure

\* _run: self.on_running(), then time.sleep(self.tic).  The base class
\* prints mem_peaks; the engine class formats them into a log line when
\* OQ_NO_DISTRIBUTE is set, and an exception ends the thread.
ThreadOnRunning ==
    /\ th_pc = "on_running"
    /\ IF kind = "engine" /\ no_distribute /\ FormatRaises
       THEN th_pc' = "done" /\ UNCHANGED now
       ELSE th_pc' = "test" /\ now' = now + 1
    /\ UNCHANGED <<kind, pids, procs, rss_measures, running, exc, start_time,
                   duration, no_distribute, mon_pc, block_exc, propagated,
                   on_exit_calls, performance, hazard_vars, writer_vars,
                   setup_vars>>

\* The state after PerformanceMonitor.__init__, which polls once.
MonitorConstructed ==
    /\ kind \in {"base", "engine"}
    /\ pids \in PidLists(kind)
    /\ no_distribute \in BOOLEAN
    /\ \E denied \in SUBSET (Range(pids) \cap Foreign),
          rss \in [Range(pids) -> 1..MaxRss] :
          LET r == PollMemory(pids, [q \in Range(pids) |-> << >>],
                              denied, rss)
          IN  /\ procs = r.procs
              /\ rss_measures = r.rss_measures
    /\ running = FALSE
    /\ exc = Absent
    /\ start_time = Absent
    /\ duration = Absent
    /\ now = 0
    /\ mon_pc = "constructed"
    /\ th_pc = "none"
    /\ block_exc = Absent
    /\ propagated = Absent
    /\ on_exit_calls = 0
    /\ performance = << >>

\* No monitor has been built.
MonitorUnused ==
    /\ kind = "base"
    /\ pids = << >>
    /\ no_distribute = FALSE
    /\ procs = << >>
    /\ rss_measures = << >>
    /\ running = FALSE
    /\ exc = Absent
    /\ start_time = Absent
    /\ duration = Absent
    /\ now = 0
    /\ mon_pc = "none"
    /\ th_pc = "none"
    /\ block_exc = Absent
    /\ propagated = Absent
    /\ on_exit_calls = 0
    /\ performance = << >>

\* --------------------------------------------------- ExposureDBWriter
AssetCategories == {"buildings", "population"}

AssetRefs == {"a1", "a2"}

\* The exposure model input the writer serializes (self.smi), and the input
\* of a model stored earlier.
Smi == "smi"
OtherSmi == "other"

\* "if not self.model": None is false, a model object is true.
HasModel_Never == FALSE

HasModel == model # Absent

\* insert_datum(point, occupancy, values): saves the ExposureModel unless the
\* writer has one, then the ExposureData row that references self.model and
\* one Occupancy row per entry of occupancy.
InsertDatum ==
    /\ Len(data_log) < MaxData
    /\ \E category \in AssetCategories, asset_ref \in AssetRefs,
          occ \in 0..MaxOccupancy :
          LET new_id == Len(exposure_model) + 1
              the_model == IF HasModel THEN The(model) ELSE new_id
              data_id == Len(exposure_data) + 1
          IN  /\ exposure_model' =
                     IF HasModel THEN exposure_model
                     ELSE Append(exposure_model,
                                 [id |-> new_id, input |-> Smi,
                                  category |-> category])
              /\ model' = Some(the_model)
              /\ exposure_data' =
                     Append(exposure_data,
                            [id |-> data_id, exposure_model |-> the_model,
                             asset_ref |-> asset_ref])
              /\ occupancy' =
                     occupancy \o [k \in 1..occ |->
                                      [exposure_data |-> data_id,
                                       occupants |-> k]]
              /\ data_log' = Append(data_log,
                                    [category |-> category,
                                     asset_ref |-> asset_ref,
                                     occupancy |-> occ])
    /\ UNCHANGED <<hazard_vars, monitor_vars, setup_vars>>

\* The state after ExposureDBWriter.__init__; the table holds the model of
\* another input.
WriterConstructed ==
    /\ model = Absent
    /\ exposure_model = <<[id |-> 1, input |-> OtherSmi,
                           category |-> "buildings"]>>
    /\ exposure_data = << >>
    /\ occupancy = << >>
    /\ data_log = << >>

\* No writer has been built.
WriterUnused ==
    /\ model = Absent
    /\ exposure_model = << >>
    /\ exposure_data = << >>
    /\ occupancy = << >>
    /\ data_log = << >>

\* --------------------------------------------------- set-up steps
\* initialize_site_model has not been called.
SiteUnused ==
    /\ site_inputs = 0
    /\ sm_nodes = {}
    /\ mesh = {}
    /\ site_model = {}
    /\ site_data = << >>
    /\ site_pc = "none"
    /\ site_log = << >>

\* initialize_sources has not been called.
SourcesUnused ==
    /\ inputs = << >>
    /\ input2hcalc = {}
    /\ src2ltsrc = << >>
    /\ parsed_source = << >>
    /\ parse_log = << >>
    /\ src_calls = << >>

\* The locations: points of one line, a coordinate each.  The site model
\* nodes of a line span a hull without area, the case DILATION_ONE_METER
\* is for; the dilation is far smaller than the distance of two points.
Coords == 0..MaxCoord

\* The id of the calculation, of its site model input, and of the site
\* model input of an earlier calculation.
HcId == 1
SiteInput == 1
OtherSiteInput == 2

\* models.SiteModel.objects.filter(input=inp), as the set of locations.
SiteModelData(inp) == {r.location : r \in {s \in site_model : s.input_id = inp}}

\* validate_site_model does not raise: the polygon around the convex hull
\* of the locations can be built, and intersects every point of the mesh.
Covered_Always(locations, points) == TRUE
Covered(locations, points) ==
    /\ locations # {}
    /\ \A pt \in points :
          /\ \E a \in locations : a <= pt
          /\ \E b \in locations : pt <= b

\* The distance of two locations.
Distance(a, b) == IF a <= b THEN b - a ELSE a - b

\* What get_closest_site_model_data may return for pt: a record of the
\* input at the least distance (LIMIT 1 takes any of several).
Closest(inp, pt) ==
    {a \in SiteModelData(inp) :
        \A b \in SiteModelData(inp) : Distance(a, pt) <= Distance(b, pt)}

\* get_site_model and store_site_model: nothing is done without a site
\* model, RuntimeError is raised for several, and the nodes of the only
\* one are inserted and committed.
StoreSiteModel ==
    /\ site_pc = "start"
    /\ IF site_inputs = 0
       THEN /\ site_pc' = "skipped"
            /\ UNCHANGED <<site_model, site_log>>
       ELSE IF site_inputs > 1
       THEN /\ site_pc' = "raised"
            /\ UNCHANGED <<site_model, site_log>>
       ELSE /\ site_model' = site_model \cup
                   {[input_id |-> SiteInput, location |-> n] : n \in sm_nodes}
            /\ site_log' = Append(site_log, "store_site_model")
            /\ site_pc' = "stored"
    /\ UNCHANGED <<site_inputs, sm_nodes, mesh, site_data>>
    /\ UNCHANGED <<hazard_vars, monitor_vars, writer_vars, sources_vars>>

\* validate_site_model on the records of the input and the mesh.
ValidateSiteModel ==
    /\ site_pc = "stored"
    /\ site_log' = Append(site_log, "validate_site_model")
    /\ site_pc' = IF Covered(SiteModelData(SiteInput), mesh)
                  THEN "validated"
                  ELSE "raised"
    /\ UNCHANGED <<site_inputs, sm_nodes, mesh, site_model, site_data>>
    /\ UNCHANGED <<hazard_vars, monitor_vars, writer_vars, sources_vars>>

\* store_site_data: one record with the points of the mesh and, for each,
\* the parameters of the closest site model record.
StoreSiteData ==
    /\ site_pc = "validated"
    /\ \E smd \in [mesh -> Coords] :
          /\ \A pt \in mesh : smd[pt] \in Closest(SiteInput, pt)
          /\ site_data' = Append(site_data, [hazard_calculation_id |-> HcId,
                                             sites |-> smd])
    /\ site_log' = Append(site_log, "store_site_data")
    /\ site_pc' = "done"
    /\ UNCHANGED <<site_inputs, sm_nodes, mesh, site_model>>
    /\ UNCHANGED <<hazard_vars, monitor_vars, writer_vars, sources_vars>>

\* A calculation about to call initialize_site_model: the table may hold
\* the site model of an earlier calculation.
SiteConstructed ==
    /\ site_inputs \in 0..MaxSiteInputs
    /\ sm_nodes \in SUBSET Coords
    /\ mesh \in SUBSET Coords \ {{}}
    /\ \E old \in SUBSET Coords :
          site_model = {[input_id |-> OtherSiteInput, location |-> n] :
                           n \in old}
    /\ site_data = << >>
    /\ site_pc = "start"
    /\ site_log = << >>

\* The source model logic tree inputs, the source model files and the
\* sources a parse of each file yields.
LtInputs == {"smlt_a", "smlt_b"}
SourceFiles == {"f1", "f2"}
SourcesIn(path) == IF path = "f1" THEN <<"s1">> ELSE <<"s2", "s3">>

\* What read_logic_trees may return: the paths of the source models.
SourcePathLists ==
    UNION {[1..n -> SourceFiles] : n \in 1..MaxSourcePaths}

\* engine2.get_input: the latest input of the same file is reused unless
\* force_inputs is set, otherwise a new input is created.
GetInput(tbl, path, force_inputs) ==
    LET same == {k \in 1..Len(tbl) : tbl[k] = path}
    IN  IF force_inputs \/ same = {}
        THEN Len(tbl) + 1
        ELSE CHOOSE k \in same : \A j \in same : j <= k

\* Src2ltsrc.objects.get(lt_src=smlt, filename=src_path) finds a row, and
\* does not raise ObjectDoesNotExist.
Associated_Never(tbl, smlt, src_path) == FALSE
Associated(tbl, smlt, src_path) ==
    \E k \in 1..Len(tbl) :
        tbl[k].lt_src = smlt /\ tbl[k].filename = src_path

\* The rows SourceDBWriter.serialize() inserts for the parsed sources.
Serialized(inp, path) ==
    [k \in 1..Len(SourcesIn(path)) |->
        [input_id |-> inp, source |-> SourcesIn(path)[k]]]

\* The loop of initialize_sources over the remaining source_paths, on
\* the tables in db.
RECURSIVE SourcesLoop(_, _, _, _, _)
SourcesLoop(db, hc, smlt, source_paths, force_inputs) ==
    IF source_paths = << >>
    THEN db
    ELSE LET src_path == Head(source_paths)
             inp == GetInput(db.inputs, src_path, force_inputs)
             db1 == [db EXCEPT
                        !.inputs = IF inp > Len(db.inputs)
                                   THEN Append(db.inputs, src_path)
                                   ELSE db.inputs,
                        !.input2hcalc = db.input2hcalc \cup {<<inp, hc>>}]
             db2 == IF Associated(db1.src2ltsrc, smlt, src_path)
                    THEN db1
                    ELSE [db1 EXCEPT
                             !.src2ltsrc =
                                 Append(db1.src2ltsrc,
                                        [hzrd_src |-> inp,
                                         lt_src |-> smlt,
                                         filename |-> src_path]),
                             !.parsed_source =
                                 db1.parsed_source \o
                                     Serialized(inp, src_path),
                             !.parse_log = Append(db1.parse_log, inp)]
         IN  SourcesLoop(db2, hc, smlt, Tail(source_paths), force_inputs)

\* initialize_sources of the next calculation.
InitializeSources ==
    /\ Len(src_calls) < MaxSourceCalls
    /\ \E smlt \in LtInputs, source_paths \in SourcePathLists,
          force_inputs \in BOOLEAN :
          LET db == SourcesLoop([inputs |-> inputs,
                                 input2hcalc |-> input2hcalc,
                                 src2ltsrc |-> src2ltsrc,
                                 parsed_source |-> parsed_source,
                                 parse_log |-> parse_log],
                                Len(src_calls) + 1, smlt, source_paths,
                                force_inputs)
          IN  /\ inputs' = db.inputs
              /\ input2hcalc' = db.input2hcalc
              /\ src2ltsrc' = db.src2ltsrc
              /\ parsed_source' = db.parsed_source
              /\ parse_log' = db.parse_log
              /\ src_calls' = Append(src_calls,
                                     [lt_src |-> smlt,
                                      source_paths |-> source_paths])
    /\ UNCHANGED <<hazard_vars, monitor_vars, writer_vars, site_vars>>

\* The realization an earlier calculation left in the table, with the
\* source_progress rows of its source model.
FirstRow == [id |-> 1, hazard_calculation |-> OtherHc, ordinal |-> 0,
             seed |-> Absent, weight |-> Some(100), sm_lt_path |-> <<"sm_b">>,
             gsim_lt_path |-> <<1>>, total_items |-> 2, completed_items |-> 0,
             is_complete |-> FALSE]

Trees == UNION {[1..n -> SmNames] : n \in 1..MaxPaths}

CallbackLists == {Absent} \cup {Some([k \in 1..n |-> k]) : n \in 0..MaxCallbacks}

Init ==
    /\ lt_realization = (1 :> FirstRow)
    /\ source_progress = NewProgressRows(1, 2)
    /\ samples \in 0..MaxSamples
    /\ random_seed \in IF samples > 0 THEN 0..MaxSeed ELSE {0}
    /\ tree \in Trees
    /\ callbacks \in CallbackLists
    /\ init_pc = "idle"
    /\ i = 0
    /\ lt_rlz = NoRow
    /\ sm_name = ""
    /\ hzrd_src = 0
    /\ hzrd_src_cache = << >>
    /\ lookups = << >>
    /\ tx_rlz = << >>
    /\ tx_sp = << >>
    /\ tx_locks = {}
    /\ rnd = 0
    /\ seed = 0
    /\ cb_next = 1
    /\ cb_log = << >>
    /\ wk = [w \in Workers |-> IdleWorker]
    /\ MonitorUnused
    /\ WriterUnused
    /\ SiteUnused
    /\ SourcesUnused

Next ==
    \/ BeginInit
    \/ CreateEnumeration
    \/ CreateMonteCarlo
    \/ ResolveSource
    \/ InsertProgress
    \/ UpdateTotalItems
    \/ RunCallback
    \/ EndIteration
    \/ CommitInit
    \/ \E w \in Workers : LockingRead(w)
    \/ \E w \in Workers : Save(w)
    \/ \E w \in Workers : Commit(w)
    \/ \E w \in Workers : Rollback(w)

Spec == Init /\ [][Next]_vars

\* The hazard calculator is not running.
HazardUnused ==
    /\ lt_realization = (FirstRow.id :> FirstRow)
    /\ source_progress = NewProgressRows(FirstRow.id, Src2ltsrc["sm_b"])
    /\ samples = 0
    /\ random_seed = 0
    /\ tree = <<"sm_a">>
    /\ callbacks = Absent
    /\ init_pc = "idle"
    /\ i = 0
    /\ lt_rlz = NoRow
    /\ sm_name = ""
    /\ hzrd_src = 0
    /\ hzrd_src_cache = << >>
    /\ lookups = << >>
    /\ tx_rlz = << >>
    /\ tx_sp = << >>
    /\ tx_locks = {}
    /\ rnd = 0
    /\ seed = 0
    /\ cb_next = 1
    /\ cb_log = << >>
    /\ wk = [w \in Workers |-> IdleWorker]

\* The steps of the initializer once it has begun.
InitSteps ==
    \/ CreateEnumeration
    \/ CreateMonteCarlo
    \/ ResolveSource
    \/ InsertProgress
    \/ UpdateTotalItems
    \/ RunCallback
    \/ EndIteration
    \/ CommitInit

\* One calculation (two paths, one callback) with its workers, whose calls
\* wait for the row lock.
LiveTree == <<"sm_a", "sm_b">>

\* The ids the realizations of that calculation and the earlier one can get.
LiveIds == 1..(Len(LiveTree) + 1)

LiveInit ==
    /\ Init
    /\ samples \in {0, 1}
    /\ random_seed = 0
    /\ tree = LiveTree
    /\ callbacks = Some(<<1>>)

LiveNext ==
    \/ BeginInit
    \/ CreateEnumeration
    \/ CreateMonteCarlo
    \/ ResolveSource
    \/ InsertProgress
    \/ UpdateTotalItems
    \/ RunCallback
    \/ EndIteration
    \/ CommitInit
    \/ \E w \in Workers : Call(w)
    \/ \E w \in Workers : AcquireLock(w)
    \/ \E w \in Workers : Save(w)
    \/ \E w \in Workers : Commit(w)
    \/ \E w \in Workers : Rollback(w)

\* Every transaction that has begun goes on: a free row lock is granted to a
\* waiting read, a worker that holds the lock saves and then commits or rolls
\* back, and the initializer runs to its commit or failure.
SpecLive ==
    /\ LiveInit
    /\ [][LiveNext]_vars
    /\ WF_vars(InitSteps)
    /\ \A w \in Workers :
          /\ WF_vars(AcquireLock(w))
          /\ WF_vars(Save(w))
          /\ WF_vars(Commit(w) \/ Rollback(w))

\* A PerformanceMonitor around one with-block.
MonitorInit ==
    /\ MonitorConstructed
    /\ HazardUnused
    /\ WriterUnused
    /\ SiteUnused
    /\ SourcesUnused

MonitorNext ==
    \/ Enter
    \/ BlockEnds
    \/ Join
    \/ ThreadTest
    \/ ThreadPoll
    \/ ThreadOnRunning

SpecMonitor == MonitorInit /\ [][MonitorNext]_vars

\* The monitor thread is scheduled and its sleep ends, and the thread that
\* called stop() goes on when join() can return.
SpecMonitorLive ==
    /\ MonitorInit
    /\ [][MonitorNext]_vars
    /\ WF_vars(ThreadTest \/ ThreadPoll \/ ThreadOnRunning)
    /\ WF_vars(Join)

\* An ExposureDBWriter and its insert_datum calls.
WriterInit ==
    /\ WriterConstructed
    /\ HazardUnused
    /\ MonitorUnused
    /\ SiteUnused
    /\ SourcesUnused

WriterNext == InsertDatum

SpecWriter == WriterInit /\ [][WriterNext]_vars

SiteInit ==
    /\ SiteConstructed
    /\ HazardUnused
    /\ MonitorUnused
    /\ WriterUnused
    /\ SourcesUnused

SiteNext ==
    \/ StoreSiteModel
    \/ ValidateSiteModel
    \/ StoreSiteData

SpecSite == SiteInit /\ [][SiteNext]_vars

\* No calculation has called initialize_sources yet.
SourcesInit ==
    /\ SourcesUnused
    /\ HazardUnused
    /\ MonitorUnused
    /\ WriterUnused
    /\ SiteUnused

SourcesNext == InitializeSources

SpecSources == SourcesInit /\ [][SourcesNext]_vars

\* ----------------------------------------------------------- properties
\* Sum of the num_items of the committed update_realization calls on r.
Reported(r) ==
    LET F[w \in 0..NumWorkers] ==
            IF w = 0 THEN 0
            ELSE F[w - 1] + (IF wk[w].pc = "committed" /\ wk[w].rlz = r
                             THEN wk[w].num_items ELSE 0)
    IN  F[NumWorkers]

\* No update_realization call on r is inside its transaction.
NoCallOpen(r) == ~ LockedByWorker(r)

\* total_items of r is the value its workers started with: the row of the
\* earlier calculation until the initializer commits, a row of this
\* calculation from then on.
TotalFixed(r) == r # FirstRow.id \/ init_pc # "committed"

Rows == DOMAIN lt_realization

NewRows == {r \in Rows : lt_realization[r].hazard_calculation = ThisHc}

\* C1: when the committed calls on a realization with fixed total_items = T > 0
\* report T items in sum and no call is open, completed_items = T and
\* is_complete holds, whatever the interleaving of the workers.
C1_NoLostUpdates ==
    \A r \in Rows :
        (/\ TotalFixed(r)
         /\ lt_realization[r].total_items > 0
         /\ NoCallOpen(r)
         /\ Reported(r) = lt_realization[r].total_items)
        => /\ lt_realization[r].completed_items = lt_realization[r].total_items
           /\ lt_realization[r].is_complete

\* C1 witness: two workers each reported 1 item of a realization with
\* total_items = 2 and both committed.
C1_Witness ==
    \E r \in Rows : \E w1, w2 \in Workers :
        /\ w1 # w2
        /\ TotalFixed(r)
        /\ lt_realization[r].total_items = 2
        /\ wk[w1].pc = "committed" /\ wk[w1].rlz = r /\ wk[w1].num_items = 1
        /\ wk[w2].pc = "committed" /\ wk[w2].rlz = r /\ wk[w2].num_items = 1
        /\ Reported(r) = 2
        /\ lt_realization[r].is_complete

\* C2 (as claimed): once initialize_realizations has committed, total_items of
\* every realization of the calculation is the number of its source_progress
\* rows.
C2_TotalIsCount ==
    init_pc = "committed" =>
        \A r \in NewRows :
            lt_realization[r].total_items = CountProgress(source_progress, r)

\* C3 (as claimed): 0 <= completed_items <= total_items for every committed
\* realization, whatever update_realization calls were made.
C3_Original ==
    \A r \in Rows :
        /\ 0 <= lt_realization[r].completed_items
        /\ lt_realization[r].completed_items <= lt_realization[r].total_items

\* C3 (amended): 0 <= completed_items <= total_items holds for every
\* realization whose committed calls report at most total_items in sum.
C3_Bounded ==
    \A r \in Rows :
        Reported(r) <= lt_realization[r].total_items
        => /\ 0 <= lt_realization[r].completed_items
           /\ lt_realization[r].completed_items <= lt_realization[r].total_items

\* C3 witness: calls were committed on a realization and their sum stays
\* within total_items.
C3_Witness ==
    \E r \in Rows :
        /\ Reported(r) > 0
        /\ Reported(r) <= lt_realization[r].total_items
        /\ lt_realization[r].completed_items = Reported(r)

\* C4 (as claimed): for total_items > 0, is_complete holds exactly when
\* completed_items = total_items.
C4_Original ==
    \A r \in Rows :
        lt_realization[r].total_items > 0
        => (lt_realization[r].is_complete
            <=> lt_realization[r].completed_items
                    = lt_realization[r].total_items)

\* C4 (amended): for a realization with fixed total_items > 0 whose committed
\* calls report at most total_items in sum, is_complete holds exactly when
\* completed_items = total_items.
C4_FlagLaw ==
    \A r \in Rows :
        (/\ TotalFixed(r)
         /\ lt_realization[r].total_items > 0
         /\ Reported(r) <= lt_realization[r].total_items)
        => (lt_realization[r].is_complete
            <=> lt_realization[r].completed_items
                    = lt_realization[r].total_items)

\* C4 witness: a committed call brought completed_items to total_items and
\* the flag is set.
C4_Witness ==
    \E r \in Rows :
        /\ TotalFixed(r)
        /\ lt_realization[r].total_items > 0
        /\ Reported(r) = lt_realization[r].total_items
        /\ lt_realization[r].completed_items = lt_realization[r].total_items
        /\ lt_realization[r].is_complete

\* C5: no step turns is_complete of a realization from true to false.
C5_FlagMonotone ==
    [][\A r \in Rows :
          lt_realization[r].is_complete => lt_realization'[r].is_complete]_vars

\* C5 witness: a call was committed on a realization that was already
\* complete, and the flag is still set.
C5_Witness ==
    \E r \in Rows :
        /\ TotalFixed(r)
        /\ lt_realization[r].is_complete
        /\ lt_realization[r].completed_items > lt_realization[r].total_items

\* C6: no step lowers completed_items of a realization.
C6_CompletedMonotone ==
    [][\A r \in Rows :
          lt_realization'[r].completed_items
              >= lt_realization[r].completed_items]_vars

\* C6 witness: two calls were committed on one realization.
C6_Witness ==
    \E r \in Rows : \E w1, w2 \in Workers :
        /\ w1 # w2
        /\ wk[w1].pc = "committed" /\ wk[w1].rlz = r
        /\ wk[w2].pc = "committed" /\ wk[w2].rlz = r
        /\ lt_realization[r].completed_items
               = wk[w1].num_items + wk[w2].num_items

\* C7: between its locking read and the end of its transaction a call is the
\* only one holding the row, the initializer does not hold it, and until the
\* call saves, the object it read is still the committed row.
C7_MutualExclusion ==
    \A w \in Workers :
        wk[w].pc \in {"locked", "saved"}
        => /\ \A v \in Workers \ {w} :
                  wk[v].pc \in {"locked", "saved"} => wk[v].rlz # wk[w].rlz
           /\ wk[w].rlz \notin tx_locks
           /\ wk[w].pc = "locked" => wk[w].obj = lt_realization[wk[w].rlz]

\* C7 witness: a call holds a row with an uncommitted write on it, and the
\* counters it read are those left by another call that committed on the
\* same row before.
C7_Witness ==
    \E w, v \in Workers :
        /\ wk[w].pc = "saved"
        /\ wk[v].pc = "committed"
        /\ wk[v].rlz = wk[w].rlz
        /\ wk[w].obj # lt_realization[wk[w].rlz]
        /\ wk[w].obj.completed_items = wk[v].num_items + wk[w].num_items

\* C8 (as claimed): the committed tables never show source_progress rows of a
\* realization whose total_items is -1 or differs from their number.
C8_AtomicToReaders ==
    \A r \in Rows :
        CountProgress(source_progress, r) > 0
        => lt_realization[r].total_items = CountProgress(source_progress, r)

\* C9: after a committed enumeration the calculation has one realization per
\* enumerated path, and the realization of the k-th path (from 0) has
\* ordinal k and the weight and branch paths of that path.
C9_EnumerationOrdinals ==
    (init_pc = "committed" /\ ~ Sampling) =>
        LET paths == EnumeratePaths(tree)
        IN  /\ Cardinality(NewRows) = Len(paths)
            /\ \A k \in 1..Len(paths) :
                  \E r \in NewRows :
                      /\ lt_realization[r].ordinal = k - 1
                      /\ lt_realization[r].weight = Some(paths[k].weight)
                      /\ lt_realization[r].sm_lt_path = paths[k].sm_lt_path
                      /\ lt_realization[r].gsim_lt_path
                             = paths[k].gsim_lt_path

\* C9 witness: an enumeration of at least two paths has committed.
C9_Witness ==
    /\ init_pc = "committed"
    /\ ~ Sampling
    /\ Len(tree) >= 2
    /\ Cardinality(NewRows) >= 2

\* C10: after a committed sampling pass with N samples the calculation has N
\* realizations with ordinals 0..N-1, created in the order of their ordinals.
C10_SamplingOrdinals ==
    (init_pc = "committed" /\ Sampling) =>
        /\ Cardinality(NewRows) = samples
        /\ {lt_realization[r].ordinal : r \in NewRows} = 0..(samples - 1)
        /\ \A r1, r2 \in NewRows :
              lt_realization[r1].ordinal < lt_realization[r2].ordinal
              => r1 < r2

\* C10 witness: a sampling pass of at least two samples has committed.
C10_Witness ==
    /\ init_pc = "committed"
    /\ Sampling
    /\ samples >= 2
    /\ Cardinality(NewRows) = samples

\* The three values rnd.randint returns, in order, after rnd.seed(s).
FirstDraw(s) == RndValue(RndSeed(s))

SecondDraw(s) == RndValue(RndNext(RndSeed(s)))

ThirdDraw(s) == RndValue(RndNext(RndNext(RndSeed(s))))

\* The seed in force in iteration k (from 0) of a run configured with seed s.
SeedAt(s, k) ==
    LET F[j \in 0..k] == IF j = 0 THEN s ELSE ThirdDraw(F[j - 1])
    IN  F[k]

\* The (ordinal, seed, sm_lt_path, gsim_lt_path) of the realizations a
\* Monte-Carlo run is expected to create, as a function of its inputs alone.
MonteCarloRun(s, n, t) ==
    [k \in 1..n |->
        <<k - 1, SeedAt(s, k - 1),
          SampleSourceModel(t, FirstDraw(SeedAt(s, k - 1))).sm_lt_path,
          SampleGmpe(SecondDraw(SeedAt(s, k - 1)))>>]

\* The rows the initializer's transaction has created so far.
TxNewRows == {r \in TxIds : TxRow(r).hazard_calculation = ThisHc}

InitOpen == init_pc \in {"loop", "created", "resolved", "inserted", "callbacks"}

\* C11: the (ordinal, seed, sm_lt_path, gsim_lt_path) sequence a committed
\* sampling pass leaves, in creation order, is the same function of
\* random_seed, the number of samples and the logic tree in every run,
\* whatever the callbacks and the workers did meanwhile.
C11_SamplingDeterministic ==
    (init_pc = "committed" /\ Sampling) =>
        /\ NewRows = {FirstRow.id + k : k \in 1..samples}
        /\ [k \in 1..samples |->
               LET row == lt_realization[FirstRow.id + k]
               IN  <<row.ordinal, The(row.seed), row.sm_lt_path,
                     row.gsim_lt_path>>]
           = MonteCarloRun(random_seed, samples, tree)

\* C11 witness: a sampling pass of two samples has committed after callbacks
\* ran and a worker transaction committed.
C11_Witness ==
    /\ init_pc = "committed"
    /\ Sampling
    /\ samples >= 2
    /\ Len(cb_log) >= 2
    /\ \E w \in Workers : wk[w].pc = "committed"
    /\ lt_realization[FirstRow.id + 1].seed
           # lt_realization[FirstRow.id + 2].seed

\* C12: in sampling mode the realization of ordinal 0 records random_seed,
\* a realization of ordinal k >= 1 records the third draw of the generator
\* seeded with the seed recorded for ordinal k - 1, and the recorded seed is
\* the one the generator was seeded with at the head of the iteration.
C12_SeedChaining ==
    Sampling =>
        /\ \A r \in TxNewRows :
              IF TxRow(r).ordinal = 0
              THEN TxRow(r).seed = Some(random_seed)
              ELSE \E q \in TxNewRows :
                      /\ TxRow(q).ordinal = TxRow(r).ordinal - 1
                      /\ TxRow(q).seed # Absent
                      /\ TxRow(r).seed = Some(ThirdDraw(The(TxRow(q).seed)))
        /\ init_pc = "loop" => rnd = RndSeed(seed)
        /\ init_pc \in {"created", "resolved", "inserted", "callbacks"}
              => lt_rlz.seed = Some(seed)

\* C12 witness: the second realization of a sampling pass is saved with a
\* seed that is not the configured one.
C12_Witness ==
    /\ Sampling
    /\ \E r \in TxNewRows :
          /\ TxRow(r).ordinal = 1
          /\ TxRow(r).seed # Some(random_seed)
          /\ TxRow(r).seed = Some(ThirdDraw(random_seed))

\* C13: every realization of a sampling calculation has a seed and no
\* weight, every realization of an enumeration calculation has the weight of
\* its path and no seed.
C13_ModeExclusive ==
    \A r \in TxNewRows :
        IF samples > 0
        THEN TxRow(r).seed # Absent /\ TxRow(r).weight = Absent
        ELSE /\ TxRow(r).seed = Absent
             /\ TxRow(r).weight
                    = Some(EnumeratePaths(tree)[TxRow(r).ordinal + 1].weight)

\* C13 witness: two realizations of a sampling calculation are saved, each
\* with a seed and without a weight.
C13_Witness ==
    /\ Cardinality(TxNewRows) >= 2
    /\ \A r \in TxNewRows : TxRow(r).weight = Absent
    /\ \E r \in TxNewRows : TxRow(r).seed # Absent

\* The pass failed in the src2ltsrc lookup of the current path.
LookupFailed ==
    /\ init_pc = "failed"
    /\ lookups # << >>
    /\ lookups[Len(lookups)] \notin DOMAIN Src2ltsrc

\* The pass failed in a callback.
CallbackFailed ==
    /\ cb_log # << >>
    /\ cb_log[Len(cb_log)].raised

\* C14: the initializer never goes on with a path whose source model has no
\* src2ltsrc row, and after the lookup has raised no realization of the
\* calculation (that of the offending path included) and no source_progress
\* row of it is in the tables.
C14_MissingMapping ==
    /\ init_pc \in {"resolved", "inserted", "callbacks"}
           => sm_name \in DOMAIN Src2ltsrc
    /\ LookupFailed =>
           /\ NewRows = {}
           /\ TxNewRows = {}
           /\ \A k \in 1..Len(source_progress) :
                  source_progress[k].lt_realization_id \in Rows

\* C14 witness: the lookup raised for the second path, after the first
\* realization had been saved and initialized.
C14_Witness ==
    /\ LookupFailed
    /\ i = 1
    /\ lt_rlz.ordinal = 1
    /\ Len(lookups) = 2

\* C15: the callbacks run in the order of rlz_callbacks, once each per
\* realization and realization after realization, only on a realization whose
\* total_items has been set, and a realization is saved only when all
\* callbacks of the earlier ones have run; without rlz_callbacks none runs.
C15_CallbackOrder ==
    LET cbs == IF callbacks = Absent THEN << >> ELSE The(callbacks)
        L == Len(cbs)
    IN  /\ cb_log # << >> => L > 0
        /\ \A k \in 1..Len(cb_log) :
               L > 0 => /\ cb_log[k].cb = cbs[((k - 1) % L) + 1]
                        /\ cb_log[k].ordinal = (k - 1) \div L
        /\ init_pc = "committed" => Len(cb_log) = NumRealizations * L
        /\ InitOpen =>
               /\ \A r \in TxNewRows : Len(cb_log) >= TxRow(r).ordinal * L
               /\ \A k \in 1..Len(cb_log) :
                      \E r \in TxNewRows :
                          /\ TxRow(r).ordinal = cb_log[k].ordinal
                          /\ TxRow(r).total_items # -1

\* C15 witness: a pass with two callbacks and two realizations has committed
\* after four callback invocations.
C15_Witness ==
    /\ init_pc = "committed"
    /\ callbacks # Absent
    /\ Len(The(callbacks)) = 2
    /\ NumRealizations = 2
    /\ Len(cb_log) = 4

\* C16: a callback that raised is the last one that ran, the pass has failed,
\* and the loop has not moved past the realization it was called for.
C16_CallbackAborts ==
    \A k \in 1..Len(cb_log) :
        cb_log[k].raised =>
            /\ k = Len(cb_log)
            /\ init_pc = "failed"
            /\ i = cb_log[k].ordinal
            /\ lt_rlz.ordinal = cb_log[k].ordinal
            /\ \A r \in TxNewRows : TxRow(r).ordinal <= cb_log[k].ordinal

\* C16 witness: the first of two callbacks raised for the realization of
\* ordinal 0, with a second callback and a second realization still to come.
C16_Witness ==
    /\ CallbackFailed
    /\ Len(CallbackList) = 2
    /\ cb_log[Len(cb_log)].cb = 1
    /\ cb_log[Len(cb_log)].ordinal = 0
    /\ NumRealizations >= 2

\* Number of source_progress rows initialize_source_progress inserts for a
\* realization whose source model is `name`.
SourcesOf(name) == Len(NewProgressRows(0, Src2ltsrc[name]))

\* C17: until the pass commits, no realization and no source_progress row it
\* created is in the committed tables, and after a failure none ever is;
\* once it commits, all its realizations are there, each with the
\* source_progress rows of its source model.
C17_AllOrNothing ==
    /\ init_pc # "committed" =>
           /\ NewRows = {}
           /\ \A k \in 1..Len(source_progress) :
                  source_progress[k].lt_realization_id = FirstRow.id
    /\ init_pc = "failed" => TxNewRows = {} /\ tx_sp = << >>
    /\ init_pc = "committed" =>
           /\ Cardinality(NewRows) = NumRealizations
           /\ \A r \in NewRows :
                  CountProgress(source_progress, r)
                      = SourcesOf(lt_realization[r].sm_lt_path[1])

\* C17 witness: a callback raised for the second realization after the
\* source_progress rows of both had been inserted, and nothing of the pass
\* is in the tables.
C17_Witness ==
    /\ init_pc = "failed"
    /\ CallbackFailed
    /\ cb_log[Len(cb_log)].ordinal = 1
    /\ hzrd_src = Src2ltsrc["sm_b"]
    /\ Cardinality(Rows) = 1
    /\ Len(source_progress) = 2

\* C18: completed_items of a realization is the sum of the num_items of the
\* calls committed on it (it starts at 0), whatever the order in which the
\* row lock let the calls through.
C18_AdditiveMerge ==
    \A r \in Rows : lt_realization[r].completed_items = Reported(r)

\* C18 witness: calls of 1 and of 2 items have committed on one realization,
\* the call of 2 items first.
C18_Witness ==
    \E r \in Rows : \E w1, w2 \in Workers :
        /\ wk[w1].pc = "committed" /\ wk[w1].rlz = r /\ wk[w1].num_items = 2
        /\ wk[w2].pc = "committed" /\ wk[w2].rlz = r /\ wk[w2].num_items = 1
        /\ wk[w2].obj.completed_items = 3
        /\ lt_realization[r].completed_items = 3

\* The fields of a realization row that update_realization does not mean to
\* change.
OtherFields(row) ==
    <<row.id, row.hazard_calculation, row.ordinal, row.seed, row.weight,
      row.sm_lt_path, row.gsim_lt_path, row.total_items>>

\* C19: a step of an update_realization transaction leaves source_progress
\* and every row of another realization as they are, and changes nothing but
\* completed_items and is_complete in the row of its own realization.
C19_UpdateFrame ==
    [][wk' # wk =>
          /\ source_progress' = source_progress
          /\ DOMAIN lt_realization' = DOMAIN lt_realization
          /\ \A r \in Rows :
                /\ OtherFields(lt_realization'[r])
                       = OtherFields(lt_realization[r])
                /\ lt_realization'[r] # lt_realization[r]
                       => \E w \in Workers :
                             /\ wk[w].rlz = r
                             /\ wk[w].pc = "saved"
                             /\ wk'[w].pc = "committed"]_vars

\* C19 witness: calls on two different realizations are open at once, one of
\* them on a realization of this calculation.
C19_Witness ==
    \E w1, w2 \in Workers :
        /\ wk[w1].pc = "saved"
        /\ wk[w2].pc = "saved"
        /\ wk[w1].rlz # wk[w2].rlz
        /\ wk[w1].rlz \in NewRows

\* C20 (as claimed): the UPDATE of initialize_source_progress changes
\* total_items of no realization but the one it is called for.
C20_InitFrame ==
    [][(init_pc = "inserted" /\ init_pc' = "callbacks") =>
          \A r \in TxIds \ {lt_rlz.id} :
              tx_rlz'[r].total_items = TxRow(r).total_items]_vars

\* C21: when the transaction around an update_realization call rolls back,
\* completed_items and is_complete of its realization are what they were
\* before the call (the values the locking read returned), the row is locked
\* by no worker any more, and completed_items is still the sum of the calls
\* the other workers committed.
C21_RollbackSafe ==
    [][\A w \in Workers :
          (wk[w].pc \in {"locked", "saved"} /\ wk'[w].pc = "rolledback") =>
              LET r == wk[w].rlz
                  read == IF wk[w].pc = "locked" THEN wk[w].obj.completed_items
                          ELSE wk[w].obj.completed_items - wk[w].num_items
              IN  /\ lt_realization'[r].completed_items = read
                  /\ lt_realization'[r].completed_items
                         = lt_realization[r].completed_items
                  /\ lt_realization'[r].is_complete
                         = lt_realization[r].is_complete
                  /\ ~ LockedByWorker(r)'
                  /\ lt_realization'[r].completed_items = Reported(r)']_vars

\* C21 witness: a call rolled back after its save on a realization on which
\* another worker had committed 1 item, and that item is still counted.
C21_Witness ==
    \E w, v \in Workers :
        /\ wk[w].pc = "rolledback"
        /\ wk[v].pc = "committed"
        /\ wk[w].rlz = wk[v].rlz
        /\ wk[v].num_items = 1
        /\ wk[w].obj.completed_items = 1 + wk[w].num_items
        /\ lt_realization[wk[w].rlz].completed_items = 1

\* C26: once initialize_realizations has completed, every realization has
\* total_items >= 0, and from then on no step (in particular no step of an
\* update_realization call) changes the total_items of a realization.
C26_TotalSettled ==
    [][init_pc' = "committed" =>
          /\ \A r \in DOMAIN lt_realization' :
                lt_realization'[r].total_items >= 0
          /\ init_pc = "committed" =>
                \A r \in Rows :
                    lt_realization'[r].total_items
                        = lt_realization[r].total_items]_vars

\* C26 witness: after the initializer committed, a call reported items on a
\* realization of this calculation and committed.
C26_Witness ==
    /\ init_pc = "committed"
    /\ \E w \in Workers :
          /\ wk[w].pc = "committed"
          /\ wk[w].rlz \in NewRows
          /\ lt_realization[wk[w].rlz].completed_items > 0
          /\ lt_realization[wk[w].rlz].total_items >= 0

\* C27 (as claimed): the LtRealization object handed to a realization
\* callback never carries the sentinel total_items = -1.
C27_NoSentinelInCallback ==
    \A k \in 1..Len(cb_log) : cb_log[k].total_items # -1

\* The source_progress rows of realization r for parsed source p, as the
\* initializer's transaction sees them.
ProgressOf(r, p) ==
    {k \in 1..Len(TxProgress) :
        /\ TxProgress[k].lt_realization_id = r
        /\ TxProgress[k].parsed_source_id = p}

\* The realizations of this pass for which initialize_source_progress has
\* inserted the rows.
ProgressInserted ==
    {r \in TxNewRows : r # lt_rlz.id \/ init_pc \notin {"created", "resolved"}}

\* C28: initialize_source_progress(R, input) leaves exactly one
\* source_progress row for every parsed source of the input resolved for R
\* and none for any other parsed source, each with is_complete = FALSE; no
\* (realization, parsed source) pair ever has two rows.
C28_OneRowPerSource ==
    /\ \A r \in ProgressInserted :
          \A k \in 1..Len(ParsedSource) :
              LET p == ParsedSource[k][1]
                  input == Src2ltsrc[TxRow(r).sm_lt_path[1]]
              IN  /\ Cardinality(ProgressOf(r, p))
                         = IF ParsedSource[k][2] = input THEN 1 ELSE 0
                  /\ \A j \in ProgressOf(r, p) : ~ TxProgress[j].is_complete
    /\ \A r \in TxIds :
          \A k \in 1..Len(ParsedSource) :
              Cardinality(ProgressOf(r, ParsedSource[k][1])) <= 1

\* C28 witness: two realizations of one pass share the source model sm_b
\* (2 parsed sources) and the pass has committed: each has its own 2 rows.
C28_Witness ==
    /\ init_pc = "committed"
    /\ Cardinality(NewRows) = 2
    /\ \A r \in NewRows :
          /\ lt_realization[r].sm_lt_path = <<"sm_b">>
          /\ CountProgress(source_progress, r) = 2

\* C29: in sampling mode the paths of a realization are determined by its
\* recorded seed alone: sm_lt_path is the source-model sample for the first
\* draw and gsim_lt_path the GSIM sample for the second draw of a generator
\* seeded with the recorded seed, so realizations with equal recorded seeds
\* have equal paths.
C29_PathsFromSeed ==
    Sampling =>
        /\ \A r \in TxNewRows :
              /\ TxRow(r).seed # Absent
              /\ TxRow(r).sm_lt_path
                     = SampleSourceModel(
                           tree, FirstDraw(The(TxRow(r).seed))).sm_lt_path
              /\ TxRow(r).gsim_lt_path
                     = SampleGmpe(SecondDraw(The(TxRow(r).seed)))
        /\ \A r, q \in TxNewRows :
              TxRow(r).seed = TxRow(q).seed =>
                  /\ TxRow(r).sm_lt_path = TxRow(q).sm_lt_path
                  /\ TxRow(r).gsim_lt_path = TxRow(q).gsim_lt_path

\* C29 witness: after callbacks ran for the first realization, a second one
\* is saved with another seed, and the two differ in their source-model path.
C29_Witness ==
    /\ Sampling
    /\ cb_log # << >>
    /\ \E r, q \in TxNewRows :
          /\ TxRow(r).ordinal = 0
          /\ TxRow(q).ordinal = 1
          /\ TxRow(r).seed # TxRow(q).seed
          /\ TxRow(r).sm_lt_path # TxRow(q).sm_lt_path

\* C30: an update_realization call with an id that references no
\* realization raises at its locking read, leaves every realization (so
\* every completed_items and is_complete) as it is, and does nothing more.
C30_MissingIdRaises ==
    [][\A w \in Workers :
          /\ (wk[w].pc = "idle" /\ wk'[w].pc # "idle" /\ wk'[w].rlz \notin Rows)
                => /\ wk'[w].pc = "raised"
                   /\ lt_realization' = lt_realization
          /\ wk[w].pc = "raised" => wk'[w] = wk[w]]_vars

\* C30 witness: a call raised for the id of a realization the initializer
\* has saved but not committed, after another call committed an increment
\* that is still in the table.
C30_Witness ==
    \E w, v \in Workers :
        /\ wk[w].pc = "raised"
        /\ wk[w].rlz \in DOMAIN tx_rlz \ Rows
        /\ wk[v].pc = "committed"
        /\ lt_realization[wk[v].rlz].completed_items = wk[v].num_items

\* C22: once the with-block of a PerformanceMonitor has ended, exc is the
\* exception the block raised and None when it raised none, duration is set,
\* and an exception of the block leaves the with statement.
C22_ContextManager ==
    mon_pc = "exited" =>
        /\ exc = Absent <=> block_exc = Absent
        /\ exc = block_exc
        /\ duration # Absent
        /\ block_exc # Absent => propagated = block_exc

\* C22 witness: a block that raised KeyError after the monitor thread had
\* polled has ended, and KeyError propagates.
C22_Witness ==
    /\ mon_pc = "exited"
    /\ now >= 1
    /\ block_exc = Some("KeyError")
    /\ exc = Some("KeyError")
    /\ propagated = Some("KeyError")

\* C23 (as claimed): mem and mem_peaks of a PerformanceMonitor always have as
\* many entries as pids were passed to the constructor.
C23_MemLengths ==
    (mon_pc # "none" /\ kind = "base") =>
        /\ Len(Mem) = Len(pids)
        /\ Len(MemPeaks) = Len(pids)

\* C24: EnginePerformanceMonitor has saved one Performance record when the
\* block has ended without an exception, and none before the block has ended
\* or when the block raised.
C24_SavedIffNoException ==
    kind = "engine" =>
        /\ mon_pc = "exited" => (Len(performance) = 1 <=> exc = Absent)
        /\ mon_pc # "exited" => performance = << >>
        /\ block_exc # Absent => performance = << >>

\* C24 witness: a monitor built for the python and the postgres process lost
\* access to the latter, its block ended without an exception, and the
\* record is saved without a postgres peak.
C24_Witness ==
    /\ kind = "engine"
    /\ mon_pc = "exited"
    /\ pids = <<"py", "pg">>
    /\ procs = <<"py">>
    /\ exc = Absent
    /\ Len(performance) = 1
    /\ performance[1].pgmemory = NoMeasure

\* The ExposureModel rows saved for the writer's input.
SavedModels ==
    {k \in 1..Len(exposure_model) : exposure_model[k].input = Smi}

\* C25: over any sequence of insert_datum calls on one writer, no
\* ExposureModel is saved before the first call and exactly one from the
\* first call on, built from the values of the first call, and every
\* ExposureData row references it.
C25_OneExposureModel ==
    /\ data_log = << >> => SavedModels = {} /\ model = Absent
    /\ data_log # << >> =>
          /\ Cardinality(SavedModels) = 1
          /\ \A k \in SavedModels :
                /\ model = Some(exposure_model[k].id)
                /\ exposure_model[k].category = data_log[1].category
                /\ \A j \in 1..Len(exposure_data) :
                      exposure_data[j].exposure_model = exposure_model[k].id
    /\ Len(exposure_data) = Len(data_log)

\* C25 witness: three assets were inserted, the later ones with another
\* asset category than the first, next to the model of another input.
C25_Witness ==
    /\ Len(exposure_data) = 3
    /\ Len(exposure_model) = 2
    /\ data_log[1].category = "buildings"
    /\ data_log[2].category = "population"
    /\ data_log[3].category = "population"
    /\ exposure_data[3].exposure_model = 2

\* The workers whose update_realization call on r has committed.
CommittedOn(r) ==
    {w \in Workers : wk[w].pc = "committed" /\ wk[w].rlz = r}

\* The orders in which the calls of the workers in S can be serialized.
Orders(S) ==
    {o \in [1..Cardinality(S) -> S] :
        \A j, k \in 1..Cardinality(S) : o[j] = o[k] => j = k}

\* The row after the calls of the workers in o ran one after the other on
\* row, in the order of o.
RunCalls(row, o) ==
    LET F[k \in 0..Len(o)] ==
            IF k = 0 THEN row
            ELSE Increment(F[k - 1], wk[o[k]].num_items)
    IN  F[Len(o)]

\* Realization r as it was before any update_realization call.
Untouched(r) ==
    [lt_realization[r] EXCEPT !.completed_items = 0, !.is_complete = FALSE]

\* C31 (as claimed): is_complete of a realization with fixed total_items is
\* what its committed calls give in every order of serialization.
C31_Original ==
    \A r \in Rows :
        TotalFixed(r) =>
            \A o \in Orders(CommittedOn(r)) :
                lt_realization[r].is_complete
                    = RunCalls(Untouched(r), o).is_complete

\* C31 (amended): is_complete of a realization with fixed total_items whose
\* committed calls report at most total_items in sum is what those calls
\* give in every order of serialization.
C31_OrderIndependent ==
    \A r \in Rows :
        (TotalFixed(r) /\ Reported(r) <= lt_realization[r].total_items) =>
            \A o \in Orders(CommittedOn(r)) :
                lt_realization[r].is_complete
                    = RunCalls(Untouched(r), o).is_complete

\* C31 witness: two workers committed calls on one realization, one after
\* the other, and their sum completed it.
C31_Witness ==
    \E r \in Rows : \E w1, w2 \in Workers :
        /\ w1 < w2
        /\ TotalFixed(r)
        /\ CommittedOn(r) = {w1, w2}
        /\ wk[w1].obj.completed_items < wk[w2].obj.completed_items
        /\ Reported(r) = lt_realization[r].total_items
        /\ lt_realization[r].is_complete

\* C32 (as claimed): once initialization has finished, a realization of the
\* pass with total_items = 0 on which no call has reported anything is
\* marked complete.
C32_ZeroIsComplete ==
    init_pc = "committed" =>
        \A r \in NewRows :
            (/\ lt_realization[r].total_items = 0
             /\ lt_realization[r].completed_items = 0)
            => lt_realization[r].is_complete

\* The items of the calls on r that are waiting, running or committed.
Pledged(r) ==
    LET F[w \in 0..NumWorkers] ==
            IF w = 0 THEN 0
            ELSE F[w - 1] +
                 (IF /\ wk[w].rlz = r
                     /\ wk[w].pc \in {"waiting", "locked", "saved", "committed"}
                  THEN wk[w].num_items ELSE 0)
    IN  F[NumWorkers]

\* The work units of realization r: its source_progress rows.
Units(r) == CountProgress(source_progress, r)

\* Every work unit of r is reported by exactly one call that is waiting,
\* running or committed.
AllReportedOnce(r) ==
    /\ r \in Rows
    /\ Units(r) > 0
    /\ Pledged(r) = Units(r)

\* C33 (as claimed): when every transaction that holds a row lock ends, every
\* update_realization call that waits for the lock gets it and ends (it
\* commits, rolls back or raises), and a realization whose work units are
\* each reported exactly once becomes complete.
C33_Progress ==
    /\ \A w \in Workers :
          (wk[w].pc = "waiting")
              ~> (wk[w].pc \in {"committed", "rolledback", "raised"})
    /\ \A r \in LiveIds :
          AllReportedOnce(r)
              ~> (IF AllReportedOnce(r) THEN lt_realization[r].is_complete
                  ELSE TRUE)

\* C34: stop() returns; on_exit is called once, by stop(), and only when
\* the monitor thread has ended; once stop() has returned the monitor thread
\* takes no step, so nothing is polled and on_running is not called.
C34_StopThenReport ==
    /\ [](/\ on_exit_calls = (IF mon_pc = "exited" THEN 1 ELSE 0)
          /\ on_exit_calls > 0 => th_pc = "done")
    /\ [][mon_pc = "exited" =>
             UNCHANGED <<th_pc, procs, rss_measures, now, on_exit_calls>>]_vars
    /\ (mon_pc = "joining") ~> (mon_pc = "exited")

\* C34 witness: stop() has returned after the monitor thread went through its
\* loop at least once and ended, and on_exit was called once.
C34_Witness ==
    /\ mon_pc = "exited"
    /\ on_exit_calls = 1
    /\ th_pc = "done"
    /\ now >= 1
    /\ \E q \in Range(procs) : Len(rss_measures[q]) >= 2

\* Every tracked process has a measurement, and no list of mem is empty.
AllMeasured ==
    /\ \A q \in Range(procs) : Len(rss_measures[q]) >= 1
    /\ \A k \in 1..Len(Mem) : Len(Mem[k]) >= 1

\* C35: at all times after construction every process still tracked has a
\* measurement, so mem_peaks takes no maximum of an empty list; a process
\* that was dropped after AccessDenied is not tracked again and gets no
\* further measurement.
C35_DroppedForGood ==
    [][/\ AllMeasured
       /\ AllMeasured'
       /\ \A q \in Range(pids) :
             q \notin Range(procs) =>
                 /\ q \notin Range(procs')
                 /\ rss_measures'[q] = rss_measures[q]]_vars

\* C35 witness: the postgres process was measured by the constructor and
\* dropped by a later poll, and the python process was polled again after
\* that.
C35_Witness ==
    /\ pids = <<"py", "pg">>
    /\ procs = <<"py">>
    /\ Len(rss_measures["pg"]) = 1
    /\ Len(rss_measures["py"]) = 3

\* The steps initialize_site_model may have made, in their order.
SiteSteps == <<"store_site_model", "validate_site_model", "store_site_data">>

\* C36: initialize_site_model stores the site model records, then validates
\* them against the computation mesh, then stores the site data; a SiteData
\* record exists only if every point of the mesh lies within the stored
\* locations, none exists once the validation raised, and a calculation
\* without site model stores and validates nothing.
C36_SiteModelOrder ==
    /\ site_pc # "none" =>
          /\ Len(site_log) <= Len(SiteSteps)
          /\ site_log = SubSeq(SiteSteps, 1, Len(site_log))
    /\ site_data # << >> =>
          /\ Len(site_data) = 1
          /\ site_log = SiteSteps
          /\ SiteModelData(SiteInput) = sm_nodes
          /\ \A pt \in mesh :
                /\ \E a \in sm_nodes : a <= pt
                /\ \E b \in sm_nodes : pt <= b
    /\ site_pc = "raised" => site_data = << >>
    /\ site_pc = "done" => Len(site_data) = 1
    /\ site_inputs = 0 /\ site_pc # "none" =>
          /\ site_log = << >>
          /\ site_data = << >>
          /\ SiteModelData(SiteInput) = {}
          /\ site_pc \in {"start", "skipped"}

\* C36 witness: the records of a site model with two nodes were stored and
\* validated, and the site data of a mesh of two points was stored.
C36_Witness ==
    /\ site_pc = "done"
    /\ sm_nodes = {0, 2}
    /\ mesh = {1, 2}
    /\ Len(site_data) = 1

\* The rows of src2ltsrc for a logic tree and a file name.
Associations(tbl, smlt, src_path) ==
    {k \in 1..Len(tbl) : tbl[k].lt_src = smlt /\ tbl[k].filename = src_path}

\* The parsed sources of the associations in rows, in their order.
RECURSIVE SerializedAll(_)
SerializedAll(rows) ==
    IF rows = << >>
    THEN << >>
    ELSE Serialized(Head(rows).hzrd_src, Head(rows).filename) \o
             SerializedAll(Tail(rows))

\* C37: a call of initialize_sources creates no Src2ltsrc row for a file
\* that is already associated with the logic tree, and parses and stores
\* sources exactly for the associations it creates: once each, for the
\* input of the new row.
C37_ParsedOnce ==
    [][src_calls' # src_calls =>
        LET call == src_calls'[Len(src_calls')]
            new == (Len(src2ltsrc) + 1)..Len(src2ltsrc')
        IN  /\ SubSeq(src2ltsrc', 1, Len(src2ltsrc)) = src2ltsrc
            /\ SubSeq(parsed_source', 1, Len(parsed_source)) = parsed_source
            /\ SubSeq(parse_log', 1, Len(parse_log)) = parse_log
            /\ \A k \in new :
                  /\ src2ltsrc'[k].lt_src = call.lt_src
                  /\ src2ltsrc'[k].filename \in Range(call.source_paths)
                  /\ Associations(src2ltsrc, call.lt_src,
                                  src2ltsrc'[k].filename) = {}
            /\ \A f \in SourceFiles, lt \in LtInputs :
                  Cardinality(Associations(src2ltsrc', lt, f)) <= 1
            /\ Len(parse_log') = Len(src2ltsrc')
            /\ \A k \in new : parse_log'[k] = src2ltsrc'[k].hzrd_src
            /\ parsed_source' = parsed_source \o
                  SerializedAll(SubSeq(src2ltsrc', Len(src2ltsrc) + 1,
                                       Len(src2ltsrc')))
            /\ (\A f \in Range(call.source_paths) :
                    Associations(src2ltsrc, call.lt_src, f) # {}) =>
                  UNCHANGED <<src2ltsrc, parsed_source, parse_log>>]_vars

\* C37 witness: two calculations with the same logic tree and the same
\* source file, the second with force_inputs and so with a new input; the
\* file was associated and parsed once.
C37_Witness ==
    /\ Len(src_calls) = 2
    /\ src_calls[1] = src_calls[2]
    /\ src_calls[1].source_paths = <<"f2">>
    /\ Len(inputs) = 2
    /\ Len(src2ltsrc) = 1
    /\ parse_log = <<1>>
    /\ Len(parsed_source) = 2

\* The parsed sources realization r has source_progress rows for.
ProgressSources(r) ==
    {ParsedSource[k][1] : k \in {j \in 1..Len(ParsedSource) :
                                    ProgressOf(r, ParsedSource[j][1]) # {}}}

\* C38: within one initialization pass no source model name is looked up
\* in src2ltsrc twice; every name resolved so far is in the cache with the
\* input the lookup returned, a realization is given the cached input of
\* its name, and realizations of the pass with the same name have
\* source_progress rows for the same parsed sources.
C38_LookupOnce ==
    /\ \A j, k \in 1..Len(lookups) : lookups[j] = lookups[k] => j = k
    /\ DOMAIN hzrd_src_cache \subseteq Range(lookups)
    /\ \A n \in DOMAIN hzrd_src_cache : hzrd_src_cache[n] = Src2ltsrc[n]
    /\ init_pc \in {"resolved", "inserted", "callbacks"} =>
          /\ Cached(sm_name)
          /\ hzrd_src = hzrd_src_cache[sm_name]
    /\ \A r1, r2 \in ProgressInserted :
          TxRow(r1).sm_lt_path[1] = TxRow(r2).sm_lt_path[1] =>
              ProgressSources(r1) = ProgressSources(r2)

\* C38 witness: the pass has resolved its second realization, which has
\* the name of the first, from the cache after one lookup, and the first
\* has its source_progress rows.
C38_Witness ==
    /\ init_pc = "inserted"
    /\ i = 1
    /\ Len(lookups) = 1
    /\ Cardinality(ProgressInserted) = 2
    /\ \A r \in ProgressInserted : Cardinality(ProgressSources(r)) = 2

====
